---------------------------- MODULE Spec2Model ----------------------------
(***************************************************************************)
(* pyvvisf: the pybind11 binding layer over VVISF/VVGL                     *)
(* (src/src/pyvvisf/vvisf_bindings.cpp) and the ISF Editor's input list    *)
(* (JSONGUIInputWidget.cpp).                                               *)
(*                                                                         *)
(* The binding functions are translated from their source.  The library    *)
(* they call (VVGL::GLBufferPool, VVISF::ISFScene) is not part of the      *)
(* sources at hand; its operations are modelled from the design            *)
(* description (sections 3 and 4) and are marked as such where defined.    *)
(***************************************************************************)
EXTENDS Integers, Sequences, FiniteSets, TLC

\* ----------------------------------------------------------------- bounds
MaxAlloc == 2        \* GPU allocations the driver grants before it reports OOM
MaxInputs == 3       \* inputs of the edited document
MaxTokens == 4       \* tokens of a text block

\* -------------------------------------------------------------- constants
StaleThreshold == 1  \* housekeeping passes an idle buffer survives

VARIABLES
    g_glfw_window,        \* TRUE: non-null
    g_glfw_initialized,
    g_context_valid,
    g_debug_texture,      \* TRUE: non-zero
    globalPool,           \* TRUE: VVGL::GetGlobalBufferPool() is non-null
    freeBuffers,          \* the pool's free-list, most recently released first
    checkedOut,           \* the pool's checked-out buffers
    allocCount,           \* allocations made so far (the last handle issued)
    callerHeld,           \* handles the Python caller holds a reference to
    passBuf,              \* pass index -> handle bound to the Pass Target (0: none)
    doc,                  \* the scene's document (0: none)
    programReady,         \* the scene holds a linked program
    scenePrograms,        \* GL programs the scene created and has not deleted
    inputVal,             \* input name -> current value of the loaded document
    setVal,               \* input name -> value of the last successful same-kind set
    last,                 \* the last call made and its outcome
    edInputs,             \* the edited document's input NAMEs, in list order
    reported              \* underlying load failure -> error classes reported for it

ctxVars == <<g_glfw_window, g_glfw_initialized, g_context_valid, g_debug_texture, globalPool>>
poolVars == <<freeBuffers, checkedOut, allocCount>>
holdVars == <<callerHeld, passBuf>>
sceneVars == <<doc, programReady, scenePrograms, inputVal, setVal>>
vars == <<ctxVars, poolVars, holdVars, sceneVars, last, edInputs, reported>>

\* The sizes callers pass, <<width, height>>.  Buffers are created at two
\* valid sizes; frames are rendered at one valid size, at (0,0), at a negative
\* width and at a zero height.
ValidSizes == {<<1, 1>>, <<2, 1>>}
RenderSize == <<1, 1>>
Sizes == {RenderSize, <<0, 0>>, <<-1, 1>>, <<1, 0>>}
Handles == 1..MaxAlloc

\* The largest width or height the design description calls sane, and a size
\* one past it.
SaneMaximum == 16384
OverSize == <<SaneMaximum + 1, 1>>

None == [kind |-> "null", v |-> 0]

Min(S) == CHOOSE x \in S : \A y \in S : x <= y
Max(S) == CHOOSE x \in S : \A y \in S : x >= y
RemoveAt(s, i) == SubSeq(s, 1, i - 1) \o SubSeq(s, i + 1, Len(s))

\* The record of a call: what was called, with what, and what came back.
\* `lib` tells whether the call reached the library operation it wraps.
\* For use_doc, `ret` is the document the call replaced.
Call(op, arg, val, err, ret, lib) ==
    [op |-> op, arg |-> arg, val |-> val, err |-> err, ret |-> ret, lib |-> lib]

\* ---------------------------------------------------------------- context
Ctx ==
    [window |-> g_glfw_window, initialized |-> g_glfw_initialized,
     valid |-> g_context_valid, tex |-> g_debug_texture, gpool |-> globalPool]

SetCtx(c) ==
    /\ g_glfw_window' = c.window
    /\ g_glfw_initialized' = c.initialized
    /\ g_context_valid' = c.valid
    /\ g_debug_texture' = c.tex
    /\ globalPool' = c.gpool

Out(c, ok) == [c |-> c, ok |-> ok]

\* validate_gl_context: the outcomes over the results of glfwMakeContextCurrent
\* and glGetIntegerv.
validate_gl_context(c) ==
    IF ~c.window \/ ~c.valid
    THEN {Out(c, FALSE)}
    ELSE {Out(c, TRUE),                                \* every GL call succeeds
          Out(c, FALSE),                               \* making it current fails
          Out([c EXCEPT !.valid = FALSE], FALSE)}      \* the viewport query fails

\* initialize_glfw_context from the point where the old window is torn down.
FreshInit(c0) ==
    LET c1 == [c0 EXCEPT !.tex = IF c0.window THEN FALSE ELSE c0.tex,
                         !.window = FALSE,
                         !.initialized = FALSE,
                         !.valid = FALSE]
    IN {Out(c1, FALSE),                                \* glfwInit .. glGenTextures fail
        Out([c1 EXCEPT !.tex = FALSE], FALSE),         \* test texture / VVGL set-up fails
        Out([window |-> TRUE, initialized |-> TRUE, valid |-> TRUE,
             tex |-> TRUE, gpool |-> TRUE], TRUE)}

initialize_glfw_context(c) ==
    IF c.initialized /\ c.window /\ c.valid
    THEN UNION {IF v.ok THEN {Out(v.c, TRUE)} ELSE FreshInit(v.c) :
                v \in validate_gl_context(c)}
    ELSE FreshInit(c)

ensure_gl_context_current(c) ==
    UNION {IF i.ok THEN validate_gl_context(i.c) ELSE {Out(i.c, FALSE)} :
           i \in initialize_glfw_context(c)}

\* cleanup_glfw_context leaving g_glfw_initialized as it was.
cleanupKeepsInitialized(c) ==
    [c EXCEPT !.valid = FALSE,
              !.tex = IF c.window THEN FALSE ELSE c.tex,
              !.window = FALSE]

cleanup_glfw_context(c) ==
    [c EXCEPT !.valid = FALSE,
              !.tex = IF c.window THEN FALSE ELSE c.tex,
              !.window = FALSE,
              !.initialized = FALSE]

\* ------------------------------------------------- buffer pool (library)
\* The pool and the holders of its buffers, threaded through an operation.
St ==
    [free |-> freeBuffers, out |-> checkedOut, alloc |-> allocCount,
     held |-> callerHeld, pass |-> passBuf]

Commit(s) ==
    /\ freeBuffers' = s.free
    /\ checkedOut' = s.out
    /\ allocCount' = s.alloc
    /\ callerHeld' = s.held
    /\ passBuf' = s.pass

FreeNames(free) == {free[i].name : i \in 1..Len(free)}
OutNames(out) == {b.name : b \in out}

\* The free-list entry createBuffer hands out for (desc, size): 0 when none.
fetchOldestFreeBuffer(free, desc, size) ==
    LET idxs == {i \in 1..Len(free) : free[i].desc = desc /\ free[i].size = size}
    IN IF idxs = {} THEN 0 ELSE Max(idxs)

fetchMatchingFreeBuffer(free, desc, size) ==
    LET idxs == {i \in 1..Len(free) : free[i].desc = desc /\ free[i].size = size}
    IN IF idxs = {} THEN 0 ELSE Min(idxs)

\* createBuffer(descriptor, size): [s, name], name = 0 for AllocationError.
createBuffer(s, desc, size, allocOk) ==
    LET i == fetchMatchingFreeBuffer(s.free, desc, size)
    IN IF size[1] <= 0 \/ size[2] <= 0
       THEN [s |-> s, name |-> 0]
       ELSE IF i # 0
       THEN [s |-> [s EXCEPT !.free = RemoveAt(@, i),
                             !.out = @ \cup {[name |-> s.free[i].name, desc |-> desc, size |-> size]}],
             name |-> s.free[i].name]
       ELSE IF allocOk /\ s.alloc < MaxAlloc
       THEN [s |-> [s EXCEPT !.alloc = @ + 1,
                             !.out = @ \cup {[name |-> s.alloc + 1, desc |-> desc, size |-> size]}],
             name |-> s.alloc + 1]
       ELSE [s |-> s, name |-> 0]

\* release(buffer): a checked-out buffer goes back to the free-list; anything
\* else (a double release) is rejected.
release(s, name) ==
    IF name \in OutNames(s.out)
    THEN LET b == CHOOSE x \in s.out : x.name = name
         IN [s EXCEPT !.out = @ \ {b},
                      !.free = <<[name |-> name, desc |-> b.desc, size |-> b.size, idle |-> 0]>> \o @]
    ELSE s

Holders(s) == s.held \cup {s.pass[p] : p \in DOMAIN s.pass}

\* A holder let go of `name`: the buffer is released once nobody holds it.
dropRefAlways(s, name) ==
    IF name # 0 THEN release(s, name) ELSE s

dropRef(s, name) ==
    IF name # 0 /\ name \notin Holders(s) THEN release(s, name) ELSE s

\* housekeeping evicting every free buffer, whatever its idle time.
housekeepingEvictsAll(s) == [s EXCEPT !.free = <<>>]

housekeeping(s) ==
    LET aged == [i \in 1..Len(s.free) |-> [s.free[i] EXCEPT !.idle = @ + 1]]
    IN [s EXCEPT !.free = SelectSeq(aged, LAMBDA b : b.idle <= StaleThreshold)]

purge(s) == [s EXCEPT !.free = <<>>]

\* ------------------------------------------------- GLBufferPool bindings
CreateBufferDesc == "RGBA8"

\* create_buffer allocating in the current context, past the free-list.
GLBufferPool_create_buffer_unpooled(size) ==
    \E e \in ensure_gl_context_current(Ctx), allocOk \in BOOLEAN :
        /\ SetCtx(e.c)
        /\ UNCHANGED <<sceneVars, edInputs, reported>>
        /\ IF ~e.ok
           THEN /\ last' = Call("create_buffer", size, None, "ContextNotCurrent", 0, FALSE)
                /\ UNCHANGED <<poolVars, holdVars>>
           ELSE LET r == createBuffer([St EXCEPT !.free = <<>>], CreateBufferDesc, size, allocOk)
                IN IF r.name = 0
                   THEN /\ last' = Call("create_buffer", size, None, "AllocationError", 0, TRUE)
                        /\ UNCHANGED <<poolVars, holdVars>>
                   ELSE /\ last' = Call("create_buffer", size, None, "ok", r.name, TRUE)
                        /\ Commit([r.s EXCEPT !.held = @ \cup {r.name}, !.free = freeBuffers])

GLBufferPool_create_buffer(size) ==
    \E e \in ensure_gl_context_current(Ctx), allocOk \in BOOLEAN :
        /\ SetCtx(e.c)
        /\ UNCHANGED <<sceneVars, edInputs, reported>>
        /\ IF ~e.ok
           THEN /\ last' = Call("create_buffer", size, None, "ContextNotCurrent", 0, FALSE)
                /\ UNCHANGED <<poolVars, holdVars>>
           ELSE LET r == createBuffer(St, CreateBufferDesc, size, allocOk)
                IN IF r.name = 0
                   THEN /\ last' = Call("create_buffer", size, None, "AllocationError", 0, TRUE)
                        /\ UNCHANGED <<poolVars, holdVars>>
                   ELSE /\ last' = Call("create_buffer", size, None, "ok", r.name, TRUE)
                        /\ Commit([r.s EXCEPT !.held = @ \cup {r.name}])

\* purge as called by the binding.
PurgeStaleOnly(s) == housekeeping(s)

PurgeCall(s) == purge(s)

GLBufferPool_purge ==
    \E e \in ensure_gl_context_current(Ctx) :
        /\ SetCtx(e.c)
        /\ UNCHANGED <<sceneVars, edInputs, reported>>
        /\ IF ~e.ok
           THEN /\ last' = Call("purge", 0, None, "ContextNotCurrent", 0, FALSE)
                /\ UNCHANGED <<poolVars, holdVars>>
           ELSE /\ last' = Call("purge", 0, None, "ok", 0, TRUE)
                /\ Commit(PurgeCall(St))

GLBufferPool_housekeeping ==
    \E e \in ensure_gl_context_current(Ctx) :
        /\ SetCtx(e.c)
        /\ UNCHANGED <<sceneVars, edInputs, reported>>
        /\ IF ~e.ok
           THEN /\ last' = Call("housekeeping", 0, None, "ContextNotCurrent", 0, FALSE)
                /\ UNCHANGED <<poolVars, holdVars>>
           ELSE /\ last' = Call("housekeeping", 0, None, "ok", 0, TRUE)
                /\ Commit(housekeeping(St))

\* The caller lets go of a buffer it holds (the last Python reference dies).
DropBuffer(name) ==
    /\ name \in callerHeld
    /\ Commit(dropRef([St EXCEPT !.held = @ \ {name}], name))
    /\ last' = Call("drop", name, None, "ok", 0, FALSE)
    /\ UNCHANGED <<ctxVars, sceneVars, edInputs, reported>>

\* ------------------------------------------------------ context bindings
InitializeContext ==
    \E i \in initialize_glfw_context(Ctx) :
        /\ SetCtx(i.c)
        /\ last' = Call("initialize_glfw_context", 0, None, IF i.ok THEN "ok" ELSE "false", 0, FALSE)
        /\ UNCHANGED <<poolVars, holdVars, sceneVars, edInputs, reported>>

CleanupContext ==
    /\ SetCtx(cleanup_glfw_context(Ctx))
    /\ last' = Call("cleanup_glfw_context", 0, None, "ok", 0, FALSE)
    /\ UNCHANGED <<poolVars, holdVars, sceneVars, edInputs, reported>>

\* reinitialize_glfw_context: cleanup, then initialize.
reinitialize_glfw_context(c) == initialize_glfw_context(cleanup_glfw_context(c))

ReinitializeContext ==
    \E i \in reinitialize_glfw_context(Ctx) :
        /\ SetCtx(i.c)
        /\ last' = Call("reinitialize_glfw_context", 0, None, IF i.ok THEN "ok" ELSE "false", 0, FALSE)
        /\ UNCHANGED <<poolVars, holdVars, sceneVars, edInputs, reported>>

\* The pool call at which the library throws while a cleanup runs its two
\* pool calls (0: neither throws).
ThrowsAt == {0, 1, 2}

\* reset_global_buffer_pool: purge and housekeeping of the global pool, then
\* SetGlobalBufferPool(nullptr); a std::exception is logged and dropped, and
\* the pool is then left set.  [s, gpool, failed].
reset_global_buffer_pool(s, gpool, throwsAt) ==
    IF ~gpool THEN [s |-> s, gpool |-> FALSE, failed |-> "none"]
    ELSE IF throwsAt = 1 THEN [s |-> s, gpool |-> TRUE, failed |-> "PoolError"]
    ELSE IF throwsAt = 2 THEN [s |-> purge(s), gpool |-> TRUE, failed |-> "PoolError"]
    ELSE [s |-> housekeeping(purge(s)), gpool |-> FALSE, failed |-> "none"]

\* For the cleanup calls, `err` is what the caller is told and `ret` the
\* failure met inside the call ("none": no failure).
ResetGlobalBufferPool ==
    \E throwsAt \in ThrowsAt :
        LET r == reset_global_buffer_pool(St, globalPool, throwsAt)
        IN /\ Commit(r.s)
           /\ SetCtx([Ctx EXCEPT !.gpool = r.gpool])
           /\ last' = Call("reset_global_buffer_pool", 0, None, "ok", r.failed, globalPool)
           /\ UNCHANGED <<sceneVars, edInputs, reported>>

\* force_cleanup_vvisf_state: reset_global_buffer_pool, then the context is
\* marked invalid.
ForceCleanupVVISFState ==
    \E throwsAt \in ThrowsAt :
        LET r == reset_global_buffer_pool(St, globalPool, throwsAt)
        IN /\ Commit(r.s)
           /\ SetCtx([Ctx EXCEPT !.gpool = r.gpool, !.valid = FALSE])
           /\ last' = Call("force_cleanup_vvisf_state", 0, None, "ok", r.failed, globalPool)
           /\ UNCHANGED <<sceneVars, edInputs, reported>>

\* GLBufferPool.force_cleanup: returns when the context cannot be made
\* current, and drops any std::exception of housekeeping and purge.
GLBufferPool_force_cleanup ==
    \E e \in ensure_gl_context_current(Ctx), throwsAt \in ThrowsAt :
        /\ SetCtx(e.c)
        /\ UNCHANGED <<sceneVars, edInputs, reported>>
        /\ IF ~e.ok
           THEN /\ last' = Call("force_cleanup", 0, None, "ok", "ContextNotCurrent", FALSE)
                /\ UNCHANGED <<poolVars, holdVars>>
           ELSE IF throwsAt = 1
           THEN /\ last' = Call("force_cleanup", 0, None, "ok", "PoolError", TRUE)
                /\ UNCHANGED <<poolVars, holdVars>>
           ELSE IF throwsAt = 2
           THEN /\ last' = Call("force_cleanup", 0, None, "ok", "PoolError", TRUE)
                /\ Commit(housekeeping(St))
           ELSE /\ last' = Call("force_cleanup", 0, None, "ok", "none", TRUE)
                /\ Commit(purge(housekeeping(St)))

\* reset_gl_context_state: returns when the context cannot be made current.
reset_gl_context_state ==
    \E e \in ensure_gl_context_current(Ctx) :
        /\ SetCtx(e.c)
        /\ last' = Call("reset_gl_context_state", 0, None, "ok",
                        IF e.ok THEN "none" ELSE "ContextNotCurrent", e.ok)
        /\ UNCHANGED <<poolVars, holdVars, sceneVars, edInputs, reported>>

\* ------------------------------------------------------------ documents
\* The documents a caller loads: 1 has one non-persistent pass and the inputs
\* brightness (float, default 0.5) and flag (bool); 2 has a persistent float
\* pass feeding a final pass, and the input brightness; 3 is invalid GLSL.
\* Float values are written in tenths.
Docs == {1, 2, 3}
InputNames == {"brightness", "flag"}

DocCompiles(d) == d # 3

\* `samples` names the passes whose buffers a pass reads.  Document 4 is
\* document 2 with its first pass reading the second: a forward reference.
ForwardRefDoc == 4

DocPasses(d) ==
    IF d = 2
    THEN <<[persistent |-> TRUE, float |-> TRUE, samples |-> {1}],
           [persistent |-> FALSE, float |-> FALSE, samples |-> {1}]>>
    ELSE IF d = ForwardRefDoc
    THEN <<[persistent |-> TRUE, float |-> TRUE, samples |-> {2}],
           [persistent |-> FALSE, float |-> FALSE, samples |-> {1}]>>
    ELSE <<[persistent |-> FALSE, float |-> FALSE, samples |-> {}]>>

\* A pass reads passes declared before it, or its own persistent buffer.
DocValidAlways(d) == TRUE

DocValid(d) ==
    \A i \in 1..Len(DocPasses(d)) : \A j \in DocPasses(d)[i].samples :
        j < i \/ (j = i /\ DocPasses(d)[i].persistent)

DocDefaults(d) ==
    [n \in InputNames |->
        IF n = "brightness" /\ d \in {1, 2} THEN [kind |-> "float", v |-> 5]
        ELSE IF n = "flag" /\ d = 1 THEN [kind |-> "bool", v |-> 0]
        ELSE None]

NoInputs == [n \in InputNames |-> None]
PassIdx == {1, 2}
NoPassBufs == [p \in PassIdx |-> 0]

\* The values a caller passes to an input.
Values ==
    {[kind |-> "float", v |-> 5], [kind |-> "float", v |-> 8],
     [kind |-> "long", v |-> 1], [kind |-> "bool", v |-> 0], [kind |-> "bool", v |-> 1]}

\* ------------------------------------------------------- scene (library)
PassDesc(p) == IF p.float THEN "RGBAFloat" ELSE "RGBA8"

\* The Pass Targets of the unloaded document let go of their buffers.
clearPassTargets(s, ps) ==
    IF ps = {} THEN s
    ELSE LET RECURSIVE go(_, _)
             go(t, rest) ==
                 IF rest = {} THEN t
                 ELSE LET p == CHOOSE x \in rest : TRUE
                          old == t.pass[p]
                      IN go(dropRef([t EXCEPT !.pass[p] = 0], old), rest \ {p})
         IN go(s, ps)

\* useDoc(document): the document replaces the current one, its Pass Targets
\* and inputs replace the old ones, and its shaders are compiled.
\* [s, ready, err]: err is the ISFErr type thrown, "ok" for none.
\* The scene deletes the program of the document it lets go of, and owns the
\* program of the new document when that one links.
ReleaseNone(n) == 0

ReleaseOld(n) == n

ProgramsAfter(ready) ==
    (scenePrograms - ReleaseOld(scenePrograms)) + (IF ready THEN 1 ELSE 0)

useDocAfterFailureFails(s, d) ==
    [s |-> clearPassTargets(s, PassIdx),
     programs |-> ProgramsAfter(d # 0 /\ DocValid(d) /\ DocCompiles(d) /\ (doc = 0 \/ programReady)),
     ready |-> d # 0 /\ DocValid(d) /\ DocCompiles(d) /\ (doc = 0 \/ programReady),
     err |-> IF d # 0 /\ ~(DocValid(d) /\ DocCompiles(d) /\ (doc = 0 \/ programReady))
             THEN "ISFErrType_ErrorCompilingGLSL" ELSE "ok"]

useDoc(s, d) ==
    [s |-> clearPassTargets(s, PassIdx),
     programs |-> ProgramsAfter(d # 0 /\ DocValid(d) /\ DocCompiles(d)),
     ready |-> d # 0 /\ DocValid(d) /\ DocCompiles(d),
     err |-> IF d # 0 /\ ~DocValid(d) THEN "ValidationError"
             ELSE IF d # 0 /\ ~DocCompiles(d) THEN "ISFErrType_ErrorCompilingGLSL"
             ELSE "ok"]

\* A persistent Pass Target that has a buffer renders into it again.
KeepsBufferNever(p, bound) == FALSE

KeepsBuffer(p, bound) == p.persistent /\ bound # 0

\* Steps 3 to 5 of createAndRenderABuffer from pass i on: [s, err, at].
\* failAt is the pass whose draw call the GPU fails (0: none).
RECURSIVE renderPasses(_, _, _, _, _, _)
renderPasses(s, d, size, i, failAt, allocOk) ==
    IF i > Len(DocPasses(d))
    THEN [s |-> s, err |-> "ok", at |-> 0, ran |-> <<>>]
    ELSE LET p == DocPasses(d)[i]
             keep == KeepsBuffer(p, s.pass[i])
             r == IF keep THEN [s |-> s, name |-> s.pass[i]]
                  ELSE createBuffer(s, PassDesc(p), size, allocOk)
             old == s.pass[i]
             s1 == IF keep THEN s
                   ELSE dropRef([r.s EXCEPT !.pass[i] = r.name], old)
             drawn == [pass |-> i, target |-> r.name,
                       sampled |-> {s1.pass[j] : j \in p.samples}]
         IN IF r.name = 0
            THEN [s |-> s, err |-> "AllocationError", at |-> i, ran |-> <<>>]
            ELSE IF failAt = i
            THEN [s |-> s1, err |-> "RenderError", at |-> i, ran |-> <<drawn>>]
            ELSE LET rest == renderPasses(s1, d, size, i + 1, failAt, allocOk)
                 IN [rest EXCEPT !.ran = <<drawn>> \o @]

\* What the library's createAndRenderABuffer does on a scene that holds a
\* document but no linked program: it fails with NotReadyError, or it returns
\* normally with the program still not ready (the case the binding tests for
\* after the call).
NotReadyOutcomes == {"NotReadyError", "returned"}

\* setValueForInputNamed(value, name): the value stored, or the error.
Widen(value) == [kind |-> "float", v |-> value.v * 10]

setValueForInputNamed(vals, value, name) ==
    IF name \notin DOMAIN vals \/ vals[name] = None
    THEN [vals |-> vals, err |-> "UnknownInputError"]
    ELSE IF value.kind = vals[name].kind
    THEN [vals |-> [vals EXCEPT ![name] = value], err |-> "ok"]
    ELSE IF value.kind = "long" /\ vals[name].kind = "float"
    THEN [vals |-> [vals EXCEPT ![name] = Widen(value)], err |-> "ok"]
    ELSE [vals |-> vals, err |-> "TypeMismatchError"]

valueForInputNamed(vals, name) ==
    IF name \in DOMAIN vals THEN vals[name] ELSE None

\* ------------------------------------------------------- ISFScene bindings
\* ISFScene_useDoc_Wrapper: the exception class thrown for an ISFErr type.
useDocErrClass(type) ==
    IF type \in {"ISFErrType_ErrorCompilingGLSL", "ISFErrType_ErrorParsingFS"}
    THEN "ShaderCompilationError"
    ELSE "ShaderRenderingError"

ISFScene_useDoc_Wrapper(d) ==
    LET u == useDoc(St, d)
    IN /\ Commit(u.s)
       /\ doc' = d
       /\ programReady' = u.ready
       /\ scenePrograms' = u.programs
       /\ inputVal' = IF d = 0 THEN NoInputs ELSE DocDefaults(d)
       /\ setVal' = NoInputs
       /\ last' = Call("use_doc", d, None,
                       IF u.err = "ok" THEN "ok" ELSE useDocErrClass(u.err), doc, TRUE)
       /\ UNCHANGED <<ctxVars, edInputs, reported>>

\* pyvvisf_create_and_render_a_buffer, line 1022.
SizeRejectedBothOnly(size) == size[1] <= 0 /\ size[2] <= 0

SizeRejected(size) == size[1] <= 0 \/ size[2] <= 0

\* What the library's render did: the passes it drew, in the order it drew
\* them, and the pass at which the GPU failed (0: none); and the entries
\* <<pass index, buffer>> the binding put in out_pass_dict.
Frame(r, dict) ==
    [kind |-> "frame", v |-> r.ran,
     gpuErrorAt |-> IF r.err = "RenderError" THEN r.at ELSE 0,
     dict |-> dict]

\* The pass_dict the library fills for a finished frame.
PassDict(ran) == {<<ran[k].pass, ran[k].target>> : k \in 1..Len(ran)}

\* How the library's createAndRenderABuffer ends a frame it could not
\* finish: it throws, or it returns a null buffer (the case the binding
\* tests for at line 1048).
FailedFrameOutcomes == {"throws", "null"}

\* The call up to the library's createAndRenderABuffer.
pyvvisf_create_and_render_a_buffer(size, keepDict) ==
    /\ UNCHANGED <<sceneVars, edInputs, reported>>
    /\ IF SizeRejected(size)
       THEN /\ last' = Call("create_and_render_a_buffer", size, None, "invalid_argument", 0, FALSE)
            /\ UNCHANGED <<ctxVars, poolVars, holdVars>>
       ELSE \E e \in ensure_gl_context_current(Ctx) :
            /\ SetCtx(e.c)
            /\ IF ~e.ok
               THEN /\ last' = Call("create_and_render_a_buffer", size, None, "ContextNotCurrent", 0, FALSE)
                    /\ UNCHANGED <<poolVars, holdVars>>
               ELSE IF doc = 0
               THEN /\ last' = Call("create_and_render_a_buffer", size, None, "NoDocument", 0, FALSE)
                    /\ UNCHANGED <<poolVars, holdVars>>
               ELSE IF ~programReady
               THEN \E o \in NotReadyOutcomes :
                    /\ last' = Call("create_and_render_a_buffer", size, None,
                                    IF o = "returned" THEN "ShaderCompilationError" ELSE o, 0, TRUE)
                    /\ UNCHANGED <<poolVars, holdVars>>
               ELSE \E failAt \in 0..Len(DocPasses(doc)), allocOk \in BOOLEAN,
                       o \in FailedFrameOutcomes :
                    LET r == renderPasses(St, doc, size, 1, failAt, allocOk)
                        n == Len(DocPasses(doc))
                        got == IF keepDict THEN {r.s.pass[i] : i \in 1..n} ELSE {r.s.pass[n]}
                    IN IF r.err # "ok"
                       THEN /\ last' = IF o = "throws"
                                       THEN Call("create_and_render_a_buffer", size, Frame(r, {}), r.err, r.at, TRUE)
                                       ELSE Call("create_and_render_a_buffer", size, Frame(r, {}), "NullResult", 0, TRUE)
                            /\ Commit(r.s)
                       ELSE /\ last' = Call("create_and_render_a_buffer", size, Frame(r, PassDict(r.ran)), "ok", r.s.pass[n], TRUE)
                            /\ Commit([r.s EXCEPT !.held = @ \cup got])

\* renderToBuffer / render(RenderTarget): the frame whose last pass is drawn
\* into the caller's buffer; the passes before it take their buffers as in
\* createAndRenderABuffer.
renderToTarget(s, d, target, failAt, allocOk) ==
    LET n == Len(DocPasses(d))
        size == (CHOOSE b \in s.out : b.name = target).size
        first == IF n = 1 THEN [s |-> s, err |-> "ok", at |-> 0, ran |-> <<>>]
                 ELSE LET p == DocPasses(d)[1]
                          keep == KeepsBuffer(p, s.pass[1])
                          r == IF keep THEN [s |-> s, name |-> s.pass[1]]
                               ELSE createBuffer(s, PassDesc(p), size, allocOk)
                          s1 == IF keep THEN s
                                ELSE dropRef([r.s EXCEPT !.pass[1] = r.name], s.pass[1])
                          drawn == [pass |-> 1, target |-> r.name,
                                    sampled |-> {s1.pass[j] : j \in p.samples}]
                      IN IF r.name = 0
                         THEN [s |-> s, err |-> "AllocationError", at |-> 1, ran |-> <<>>]
                         ELSE IF failAt = 1
                         THEN [s |-> s1, err |-> "RenderError", at |-> 1, ran |-> <<drawn>>]
                         ELSE [s |-> s1, err |-> "ok", at |-> 0, ran |-> <<drawn>>]
        final == [pass |-> n, target |-> target,
                  sampled |-> {first.s.pass[j] : j \in DocPasses(d)[n].samples}]
    IN IF first.err # "ok" THEN first
       ELSE [s |-> first.s, err |-> IF failAt = n THEN "RenderError" ELSE "ok",
             at |-> IF failAt = n THEN n ELSE 0, ran |-> first.ran \o <<final>>]

\* The GLBuffer objects a caller can pass: a buffer it holds, a GLBuffer made
\* by CreateGLBufferRef (name 0), or no buffer at all (NullRef).
NullRef == -1
CallerBuffers == callerHeld \cup {0, NullRef}

\* render_with_target_and_size_and_time_and_pass_dict: the local pass_dict is
\* never handed to self.render, so nothing is copied to out_pass_dict.  The
\* library refuses a target without a texture.
render_with_target_and_pass_dict(target) ==
    /\ target \in CallerBuffers
    /\ UNCHANGED <<ctxVars, sceneVars, edInputs, reported>>
    /\ IF target <= 0
       THEN /\ last' = Call("render_with_target_and_pass_dict", target, None,
                            "InvalidBuffer", 0, TRUE)
            /\ UNCHANGED <<poolVars, holdVars>>
       ELSE IF doc = 0 \/ ~programReady
       THEN /\ \E o \in NotReadyOutcomes :
                 last' = Call("render_with_target_and_pass_dict", target, None,
                              IF o = "returned" THEN "ok" ELSE o, 0, TRUE)
            /\ UNCHANGED <<poolVars, holdVars>>
       ELSE \E failAt \in 0..Len(DocPasses(doc)), allocOk \in BOOLEAN :
            LET r == renderToTarget(St, doc, target, failAt, allocOk)
            IN /\ last' = Call("render_with_target_and_pass_dict", target, Frame(r, {}),
                               r.err, r.at, TRUE)
               /\ Commit(r.s)

\* glbuffer_to_pil_image, lines 709-717: the buffers refused before the
\* context is touched.
InvalidGLBufferNullOnly(buffer) == buffer = NullRef

InvalidGLBuffer(buffer) == buffer = NullRef \/ buffer = 0

\* The OpenGL state the readback touches: the texture bound to each target,
\* the read and draw framebuffer bindings, and the framebuffers generated and
\* not deleted.  A texture has the target it was first bound to: the entry
\* texture of a target is a texture of that target.  At entry every target
\* has its entry texture bound, or none has a texture bound.
TexTargets == {"GL_TEXTURE_2D", "GL_TEXTURE_RECTANGLE", "GL_TEXTURE_CUBE_MAP"}

EntryTex ==
    [t \in TexTargets |->
        IF t = "GL_TEXTURE_2D" THEN MaxAlloc + 1
        ELSE IF t = "GL_TEXTURE_RECTANGLE" THEN MaxAlloc + 2 ELSE MaxAlloc + 3]

GLStates ==
    {g \in [tex : [TexTargets -> 0..(MaxAlloc + 3)],
            read : {"default", "app"}, draw : {"default", "app"}, fbs : {{}}] :
        \/ \A t \in TexTargets : g.tex[t] = 0
        \/ \A t \in TexTargets : g.tex[t] = EntryTex[t]}

GLDefault ==
    [tex |-> [t \in TexTargets |-> 0], read |-> "default", draw |-> "default", fbs |-> {}]

\* glBindTexture(target, name) for a buffer of target bufTarget: binding a
\* texture of another target is GL_INVALID_OPERATION and binds nothing.
TexTargetOf(name, bufTarget) ==
    IF name \in Handles THEN bufTarget
    ELSE CHOOSE t \in TexTargets : EntryTex[t] = name

glBindTexture(g, target, name, bufTarget) ==
    IF name = 0 THEN [g EXCEPT !.tex[target] = 0]
    ELSE IF TexTargetOf(name, bufTarget) # target THEN g
    ELSE [g EXCEPT !.tex[target] = name]

\* The ways through the readback after the state was saved: the exits that
\* throw, the direct read and the framebuffer fallback.
ReadbackPaths ==
    {"bindError", "notTexture", "badDimensions", "badAlloc", "direct",
     "genFramebufferFails", "bindFramebufferFails", "framebufferIncomplete",
     "readPixelsError", "fallback"}

\* glbuffer_to_pil_image from the saving of the GL state on: the GL state at
\* exit.  The texture binding saved is that of GL_TEXTURE_2D, the framebuffer
\* binding saved and restored is GL_FRAMEBUFFER_BINDING.
readback(g, target, name, path) ==
    LET current_texture_binding == g.tex["GL_TEXTURE_2D"]
        current_framebuffer_binding == g.draw
        bound == IF path = "bindError" THEN g ELSE glBindTexture(g, target, name, target)
        restoreTex(h) == glBindTexture(h, target, current_texture_binding, target)
        withFb == [bound EXCEPT !.read = "temp", !.draw = "temp", !.fbs = @ \cup {"temp"}]
        restoreFb(h) == [h EXCEPT !.read = current_framebuffer_binding,
                                  !.draw = current_framebuffer_binding,
                                  !.fbs = @ \ {"temp"}]
    IN IF path = "badAlloc" THEN bound
       ELSE IF path \in {"framebufferIncomplete", "readPixelsError", "fallback"}
       THEN restoreTex(restoreFb(withFb))
       ELSE restoreTex(bound)

\* glbuffer_to_pil_image.  `lib` tells whether glBindTexture was issued, `ret`
\* the texture name it was issued with, `val` the GL state at entry and exit.
glbuffer_to_pil_image(buffer, target, entry, path) ==
    /\ buffer \in CallerBuffers
    /\ UNCHANGED <<poolVars, holdVars, sceneVars, edInputs, reported>>
    /\ IF InvalidGLBuffer(buffer)
       THEN /\ last' = Call("to_pil_image", buffer, None, "InvalidBuffer", 0, FALSE)
            /\ UNCHANGED ctxVars
       ELSE \E e \in ensure_gl_context_current(Ctx) :
            /\ SetCtx(e.c)
            /\ IF ~e.ok
               THEN last' = Call("to_pil_image", buffer, None, "ContextNotCurrent", 0, FALSE)
               ELSE last' = Call("to_pil_image", buffer,
                                 [kind |-> "gl", target |-> target, entry |-> entry,
                                  exit |-> readback(entry, target, buffer, path)],
                                 IF path \in {"direct", "fallback"} THEN "ok" ELSE "ReadbackError",
                                 Max({buffer, 0}), TRUE)

\* pil_image_to_glbuffer after the context check.  What happens to the image:
\* its conversion or tobytes raises, glGenTextures gives no name, glTexImage2D
\* leaves a GL error, or the upload succeeds.
PilOutcomes == {"convertError", "genTexturesFails", "uploadError", "ok"}

\* [err, name, live]: the error thrown, the texture name of the GLBuffer
\* returned (0: none) and the textures the call generated and did not delete.
pil_image_to_glbuffer(outcome, texture_name) ==
    IF outcome = "convertError"
    THEN [err |-> "ConversionError", name |-> 0, live |-> {}]
    ELSE IF outcome = "genTexturesFails"
    THEN [err |-> "TextureError", name |-> 0, live |-> {}]
    ELSE IF outcome = "uploadError"
    THEN [err |-> "UploadError", name |-> 0, live |-> {texture_name}]
    ELSE [err |-> "ok", name |-> texture_name, live |-> {texture_name}]

\* GLBuffer.from_pil_image.  The texture is generated by the driver, outside
\* the pool; `ret` is the name the returned GLBuffer carries.
GLBuffer_from_pil_image(outcome) ==
    \E e \in ensure_gl_context_current(Ctx) :
        /\ SetCtx(e.c)
        /\ UNCHANGED <<poolVars, holdVars, sceneVars, edInputs, reported>>
        /\ IF ~e.ok
           THEN last' = Call("from_pil_image", outcome, None, "ContextNotCurrent", 0, FALSE)
           ELSE LET r == pil_image_to_glbuffer(outcome, EntryTex["GL_TEXTURE_2D"])
                IN last' = Call("from_pil_image", outcome,
                                [kind |-> "textures", live |-> r.live], r.err, r.name, TRUE)

\* set_value_for_input_named: any std::exception becomes ShaderRenderingError.
set_value_for_input_named(value, name) ==
    LET r == setValueForInputNamed(inputVal, value, name)
    IN /\ inputVal' = r.vals
       /\ setVal' = IF name \in InputNames
                    THEN [setVal EXCEPT ![name] =
                            IF r.err = "ok" /\ value.kind = inputVal[name].kind
                            THEN value ELSE IF r.err = "ok" THEN None ELSE @]
                    ELSE setVal
       /\ last' = Call("set_value_for_input_named", name, value,
                       IF r.err = "ok" THEN "ok" ELSE "ShaderRenderingError", r.err, TRUE)
       /\ UNCHANGED <<ctxVars, poolVars, holdVars, doc, programReady, scenePrograms,
                      edInputs, reported>>

get_value_default(name) ==
    /\ last' = Call("get_value_for_input_named", name,
                    IF name \in InputNames /\ doc # 0 THEN DocDefaults(doc)[name] ELSE None,
                    "ok", 0, TRUE)
    /\ UNCHANGED <<ctxVars, poolVars, holdVars, sceneVars, edInputs, reported>>

get_value_for_input_named(name) ==
    /\ last' = Call("get_value_for_input_named", name, valueForInputNamed(inputVal, name), "ok", 0, TRUE)
    /\ UNCHANGED <<ctxVars, poolVars, holdVars, sceneVars, edInputs, reported>>

\* ------------------------------------------------- document construction
\* ISFErr as the wrappers read it: its type, and whether err.specific contains
\* "invalid" or "type" and err.general contains "input".
ISFErrTypes ==
    {"ISFErrType_MalformedJSON", "ISFErrType_ErrorParsingFS", "ISFErrType_ErrorCompilingGLSL",
     "ISFErrType_MissingResource", "ISFErrType_ErrorLoading", "ISFErrType_Unknown"}

ISFErrs ==
    [res : {"ISFErr"}, type : ISFErrTypes,
     hasInvalid : BOOLEAN, hasType : BOOLEAN, hasInput : BOOLEAN]

\* The constructor returning a document, or a null document.
Returned(res) ==
    [res |-> res, type |-> "none", hasInvalid |-> FALSE, hasType |-> FALSE, hasInput |-> FALSE]

\* The kinds of failure a document construction meets.
FailureKinds == (ISFErrTypes \ {"ISFErrType_Unknown"}) \cup {"ContextNotCurrent"}

\* The switch of CreateISFDocRef_SafeWrapper and CreateISFDocRefWith_SafeWrapper:
\* the exception class thrown for an ISFErr.
InputTypeText(e) == e.hasInvalid \/ e.hasType \/ e.hasInput

docErrClass(e) ==
    IF e.type \in {"ISFErrType_ErrorParsingFS", "ISFErrType_ErrorCompilingGLSL"}
    THEN "ShaderCompilationError"
    ELSE IF e.type \in {"ISFErrType_MissingResource", "ISFErrType_ErrorLoading"}
    THEN "ISFParseError"
    ELSE IF InputTypeText(e) THEN "ShaderCompilationError" ELSE "ISFParseError"

Report(kind, class) ==
    IF kind \in FailureKinds
    THEN [reported EXCEPT ![kind] = @ \cup {class}]
    ELSE reported

\* Both wrappers: the context guard, the library's constructor, the null test
\* and the catch clauses.  `outcome` is what the library's constructor does:
\* Returned("ok"), Returned("null"), or the ISFErr it throws.
SafeWrapper(op, outcome) ==
    \E e \in ensure_gl_context_current(Ctx) :
        /\ SetCtx(e.c)
        /\ UNCHANGED <<poolVars, holdVars, sceneVars, edInputs>>
        /\ IF ~e.ok
           THEN /\ last' = Call(op, "ContextNotCurrent", None, "ISFParseError", 0, FALSE)
                /\ reported' = Report("ContextNotCurrent", "ISFParseError")
           ELSE IF outcome.res = "ok"
           THEN /\ last' = Call(op, "ok", None, "ok", 0, TRUE)
                /\ UNCHANGED reported
           ELSE IF outcome.res = "null"
           THEN /\ last' = Call(op, "null", None, "ISFParseError", 0, TRUE)
                /\ UNCHANGED reported
           ELSE /\ last' = Call(op, outcome.type, None, docErrClass(outcome), 0, TRUE)
                /\ reported' = Report(outcome.type, docErrClass(outcome))

CreateISFDocRef_SafeWrapper(outcome) == SafeWrapper("CreateISFDocRef", outcome)

CreateISFDocRefWith_SafeWrapper(outcome) == SafeWrapper("CreateISFDocRefWith", outcome)

\* ----------------------------------------------- ISF Editor: input list
EdNames == {"a", "b", "c", "d"}

\* JGMTop::inputNamed: the index of the input with that NAME, -1 for nullptr.
inputNamed(inputs, name) ==
    LET idxs == {i \in 1..Len(inputs) : inputs[i] = name}
    IN IF idxs = {} THEN -1 ELSE Min(idxs) - 1

\* QVector::move(from, to), indices from 0.
InsertAt(s, i, x) == SubSeq(s, 1, i - 1) \o <<x>> \o SubSeq(s, i, Len(s))
QVectorMove(s, from, to) == InsertAt(RemoveAt(s, from + 1), to + 1, s[from + 1])

\* The editingFinished handler of prepareInputNameEdit, for the widget of the
\* input at index idx.
NameTakenNever(inputs, name) == FALSE

NameTaken(inputs, name) == inputNamed(inputs, name) # -1

editingFinished(idx, newString) ==
    /\ idx < Len(edInputs)
    /\ LET origAttrName == edInputs[idx + 1]
       IN IF NameTaken(edInputs, newString)
          THEN /\ UNCHANGED edInputs
               /\ last' = Call("rename", idx, None,
                               IF origAttrName = newString THEN "same" ELSE "rejected", 0, FALSE)
          ELSE /\ edInputs' = [edInputs EXCEPT ![idx + 1] = newString]
               /\ last' = Call("rename", idx, None, "ok", 0, FALSE)
    /\ UNCHANGED <<ctxVars, poolVars, holdVars, sceneVars, reported>>

\* The clicked handler of prepareDeleteLabel.
deleteInput(idx) ==
    /\ idx < Len(edInputs)
    /\ edInputs' = RemoveAt(edInputs, idx + 1)
    /\ last' = Call("delete", idx, None, "ok", 0, FALSE)
    /\ UNCHANGED <<ctxVars, poolVars, holdVars, sceneVars, reported>>

\* dropEvent moving to the index computed from the target and the edge alone,
\* without the step back for a source above the target.
dropEventNoStepBack(srcIndex, target, dropEdge) ==
    /\ srcIndex < Len(edInputs)
    /\ target < Len(edInputs)
    /\ LET d1 == IF dropEdge = "BottomEdge" THEN target + 1 ELSE target
           dstIndex == Min({d1, Len(edInputs) - 1})
       IN IF srcIndex = target
          THEN UNCHANGED edInputs
          ELSE edInputs' = QVectorMove(edInputs, srcIndex, dstIndex)
    /\ last' = Call("drop_event", srcIndex,
                    [kind |-> "drop", target |-> target, edge |-> dropEdge], "ok", 0, FALSE)
    /\ UNCHANGED <<ctxVars, poolVars, holdVars, sceneVars, reported>>

\* dropEvent on the widget of the input at index target, dragging the input
\* at srcIndex.
dropEvent(srcIndex, target, dropEdge) ==
    /\ srcIndex < Len(edInputs)
    /\ target < Len(edInputs)
    /\ LET d0 == target
           d1 == IF dropEdge = "BottomEdge" THEN d0 + 1 ELSE d0
           dstIndex == IF d1 > srcIndex THEN d1 - 1 ELSE d1
       IN IF srcIndex = target
          THEN UNCHANGED edInputs
          ELSE edInputs' = QVectorMove(edInputs, srcIndex, dstIndex)
    /\ last' = Call("drop_event", srcIndex,
                    [kind |-> "drop", target |-> target, edge |-> dropEdge], "ok", 0, FALSE)
    /\ UNCHANGED <<ctxVars, poolVars, holdVars, sceneVars, reported>>

\* ------------------------------------------------ ISF Editor: MediaFile
\* A MediaFile as MediaFile(type, name, otherString) builds it.  Strings are
\* numbered in their lexicographic order; TypeInt is static_cast<int>(type).
MediaTypes == {"Type_None", "Type_App", "Type_Mov", "Type_Img", "Type_Cam", "Type_ISF"}
MediaStrings == {1, 2}
MediaFiles == [type : MediaTypes, name : MediaStrings, resourceLocator : MediaStrings]

TypeInt(type) ==
    IF type = "Type_None" THEN 0
    ELSE IF type = "Type_App" THEN 1
    ELSE IF type = "Type_Mov" THEN 2
    ELSE IF type = "Type_Img" THEN 3
    ELSE IF type = "Type_Cam" THEN 4 ELSE 5

\* MediaFile::operator==
MediaFile_equals(a, n) ==
    IF a.type # n.type THEN FALSE
    ELSE IF a.type = "Type_None" THEN TRUE
    ELSE a.resourceLocator = n.resourceLocator

\* MediaFile::operator<
MediaFile_less(a, n) ==
    IF a.type # n.type THEN TypeInt(a.type) < TypeInt(n.type)
    ELSE IF a.type = "Type_None" THEN FALSE
    ELSE IF a.type \in {"Type_Cam", "Type_App"} THEN a.name < n.name
    ELSE a.resourceLocator < n.resourceLocator

\* Two MediaFiles are compared, each way round and each with itself.
MediaFile_compare(a, b) ==
    /\ last' = Call("MediaFile_compare", <<a, b>>,
                    [kind |-> "compare", eq |-> MediaFile_equals(a, b),
                     lt |-> MediaFile_less(a, b), gt |-> MediaFile_less(b, a),
                     ltSelf |-> MediaFile_less(a, a)],
                    "ok", 0, FALSE)
    /\ UNCHANGED <<ctxVars, poolVars, holdVars, sceneVars, edInputs, reported>>

\* ------------------------------------------------ ISF Editor: Highlighter
\* A text block is a sequence of tokens that do not overlap: "//" (a match of
\* commentSingleExpr starts here), "/*" (commentStartExpr), "*/"
\* (commentEndExpr) and "x" (anything else).  Indices count tokens from 0, as
\* the code counts characters; -1 is "not found".
Tokens == {"//", "/*", "*/", "x"}
Blocks == UNION {[1..n -> Tokens] : n \in 0..MaxTokens}

\* QString::indexOf(expr, from) and QRegularExpression::match(text, from)
\* .capturedStart(): the first index at or after `from` where the token is.
indexOf(inText, token, from) ==
    LET idxs == {i \in 0..(Len(inText) - 1) : i >= from /\ inText[i + 1] = token}
    IN IF idxs = {} THEN -1 ELSE Min(idxs)

\* The while loop of highlightBlock: [state, openedAt], openedAt the index the
\* comment left open started at (-1: none).
RECURSIVE commentLoop(_, _, _, _)
commentLoop(inText, multiLineCommentStartIndex, state, openedAt) ==
    IF multiLineCommentStartIndex < 0
    THEN [state |-> state, openedAt |-> openedAt]
    ELSE LET endIndex == indexOf(inText, "*/", multiLineCommentStartIndex)
             commentLength == IF endIndex = -1
                              THEN Len(inText) - multiLineCommentStartIndex
                              ELSE endIndex - multiLineCommentStartIndex + 1
         IN commentLoop(inText,
                        indexOf(inText, "/*", multiLineCommentStartIndex + commentLength),
                        IF endIndex = -1 THEN "HBS_OpenComment" ELSE state,
                        IF endIndex = -1 THEN multiLineCommentStartIndex ELSE openedAt)

\* Highlighter::highlightBlock: the block state it sets.
highlightBlock(inText, previousBlockState) ==
    LET singleLineCommentStartIndex == indexOf(inText, "//", 0)
        found == IF previousBlockState # "HBS_OpenComment"
                 THEN indexOf(inText, "/*", 0) ELSE 0
        multiLineCommentStartIndex ==
            IF found >= 0 /\ singleLineCommentStartIndex >= 0
               /\ found > singleLineCommentStartIndex
            THEN -1 ELSE found
    IN commentLoop(inText, multiLineCommentStartIndex, "HBS_OK", -1)

\* The blocks of the document are highlighted in order: the previous block
\* state is the state set for the block before, -1 ("none") for the first.
HighlightBlock(inText) ==
    LET previousBlockState == IF last.op = "highlightBlock" THEN last.val.state ELSE "none"
        r == highlightBlock(inText, previousBlockState)
    IN /\ last' = Call("highlightBlock", inText,
                       [kind |-> "block", prev |-> previousBlockState,
                        state |-> r.state, openedAt |-> r.openedAt],
                       "ok", 0, FALSE)
       /\ UNCHANGED <<ctxVars, poolVars, holdVars, sceneVars, edInputs, reported>>

\* Where the single-line comment of a block starts when the block is read
\* from the left, markers inside a comment not counting (-1: there is none).
RECURSIVE singleLineCommentStart(_, _, _)
singleLineCommentStart(inText, from, inComment) ==
    IF from >= Len(inText) THEN -1
    ELSE IF inComment
    THEN LET endIndex == indexOf(inText, "*/", from)
         IN IF endIndex = -1 THEN -1
            ELSE singleLineCommentStart(inText, endIndex + 1, FALSE)
    ELSE IF inText[from + 1] = "//" THEN from
    ELSE singleLineCommentStart(inText, from + 1, inText[from + 1] = "/*")

\* ---------------------------------------------------------- specification
InitPipeline ==
    /\ g_glfw_window = TRUE
    /\ g_glfw_initialized = TRUE
    /\ g_context_valid = TRUE
    /\ g_debug_texture = TRUE
    /\ globalPool = TRUE
    /\ freeBuffers = <<>>
    /\ checkedOut = {}
    /\ allocCount = 0
    /\ callerHeld = {}
    /\ passBuf = NoPassBufs
    /\ doc = 0
    /\ programReady = FALSE
    /\ scenePrograms = 0
    /\ inputVal = NoInputs
    /\ setVal = NoInputs
    /\ last = Call("init", 0, None, "ok", 0, FALSE)
    /\ reported = [k \in FailureKinds |-> {}]

Init ==
    /\ InitPipeline
    /\ edInputs = <<>>

Next ==
    \/ GLBufferPool_create_buffer(RenderSize)
    \/ GLBufferPool_purge
    \/ GLBufferPool_housekeeping
    \/ \E name \in Handles : DropBuffer(name)
    \/ InitializeContext
    \/ CleanupContext
    \/ \E d \in Docs \cup {0} : ISFScene_useDoc_Wrapper(d)
    \/ \E size \in Sizes, keepDict \in BOOLEAN : pyvvisf_create_and_render_a_buffer(size, keepDict)

Spec == Init /\ [][Next]_vars

\* The pool alone: buffers of two sizes are created, let go, evicted and
\* purged while the context comes and goes.
NextPool ==
    \/ \E size \in ValidSizes \cup {<<0, 0>>} : GLBufferPool_create_buffer(size)
    \/ GLBufferPool_purge
    \/ GLBufferPool_housekeeping
    \/ \E name \in Handles : DropBuffer(name)
    \/ InitializeContext
    \/ CleanupContext

SpecPool == Init /\ [][NextPool]_vars

\* The context and the global pool: the context is set up, torn down and set
\* up again, the pool reset and cleaned, while buffers are created and let go.
NextContext ==
    \/ InitializeContext
    \/ CleanupContext
    \/ ReinitializeContext
    \/ ResetGlobalBufferPool
    \/ ForceCleanupVVISFState
    \/ GLBufferPool_force_cleanup
    \/ reset_gl_context_state
    \/ GLBufferPool_create_buffer(RenderSize)
    \/ \E name \in Handles : DropBuffer(name)

SpecContext == Init /\ [][NextContext]_vars

\* Frames of every size: a document is loaded and frames are requested at a
\* valid size, at sizes that are not positive and at a size past the sane
\* maximum.
NextSizes ==
    \/ \E d \in {0, 1, 3} : ISFScene_useDoc_Wrapper(d)
    \/ \E size \in Sizes \cup {OverSize}, keepDict \in BOOLEAN :
          pyvvisf_create_and_render_a_buffer(size, keepDict)
    \/ \E name \in Handles : DropBuffer(name)
    \/ CleanupContext

SpecSizes == Init /\ [][NextSizes]_vars

\* Readback and upload: buffers of every texture target are read back from
\* every GL state, along every way through the call, and images are uploaded.
NextReadback ==
    \/ GLBufferPool_create_buffer(RenderSize)
    \/ \E name \in Handles : DropBuffer(name)
    \/ \E buffer \in Handles \cup {0, NullRef}, target \in TexTargets,
          entry \in GLStates, path \in ReadbackPaths :
          glbuffer_to_pil_image(buffer, target, entry, path)
    \/ \E outcome \in PilOutcomes : GLBuffer_from_pil_image(outcome)

SpecReadback == Init /\ [][NextReadback]_vars

\* The editor's media files are compared with each other.
NextMedia == \E a \in MediaFiles, b \in MediaFiles : MediaFile_compare(a, b)

SpecMedia == Init /\ [][NextMedia]_vars

\* The highlighter is run over the blocks of a document, one after the other.
NextHighlight == \E inText \in Blocks : HighlightBlock(inText)

SpecHighlight == Init /\ [][NextHighlight]_vars

\* The render passes: documents, one of them with a forward reference, are
\* loaded and rendered while the caller lets go of results.
NextPasses ==
    \/ \E d \in Docs \cup {0, ForwardRefDoc} : ISFScene_useDoc_Wrapper(d)
    \/ \E keepDict \in BOOLEAN : pyvvisf_create_and_render_a_buffer(RenderSize, keepDict)
    \/ \E name \in Handles : DropBuffer(name)
    \/ GLBufferPool_housekeeping
    \/ \E target \in Handles \cup {0, NullRef} : render_with_target_and_pass_dict(target)
    \/ \E buffer \in Handles \cup {0, NullRef}, path \in {"direct", "bindError"} :
          glbuffer_to_pil_image(buffer, "GL_TEXTURE_2D", GLDefault, path)

SpecPasses == Init /\ [][NextPasses]_vars

\* The scene's inputs: documents are loaded, values set and read, frames
\* rendered at one size.
NextInputs ==
    \/ \E d \in Docs \cup {0} : ISFScene_useDoc_Wrapper(d)
    \/ \E value \in Values, name \in InputNames \cup {"nope"} : set_value_for_input_named(value, name)
    \/ \E name \in InputNames \cup {"nope"} : get_value_for_input_named(name)
    \/ pyvvisf_create_and_render_a_buffer(RenderSize, FALSE)
    \/ \E name \in Handles : DropBuffer(name)

SpecInputs == Init /\ [][NextInputs]_vars

\* Documents are constructed from a path and from shader strings.
DocOutcomes == {Returned("ok"), Returned("null")} \cup ISFErrs

NextDoc ==
    \/ \E o \in DocOutcomes : CreateISFDocRef_SafeWrapper(o)
    \/ \E o \in DocOutcomes : CreateISFDocRefWith_SafeWrapper(o)
    \/ CleanupContext

SpecDoc == Init /\ [][NextDoc]_vars

\* The editor opens a document whose inputs carry distinct NAMEs; the user
\* renames, deletes and reorders them.
DistinctSeqs(S, n) ==
    {q \in UNION {[1..k -> S] : k \in 0..n} :
        \A i, j \in 1..Len(q) : i # j => q[i] # q[j]}

InitEditor ==
    /\ InitPipeline
    /\ edInputs \in DistinctSeqs(EdNames, MaxInputs)

EdIdx == 0..(MaxInputs - 1)

NextEditor ==
    \/ \E idx \in EdIdx, newString \in EdNames : editingFinished(idx, newString)
    \/ \E idx \in EdIdx : deleteInput(idx)
    \/ \E src \in EdIdx, target \in EdIdx, edge \in {"TopEdge", "BottomEdge", "LeftEdge"} :
          dropEvent(src, target, edge)

SpecEditor == InitEditor /\ [][NextEditor]_vars

\* ------------------------------------------------------------- properties
RenderOp == "create_and_render_a_buffer"

\* C1: a render call whose width or height is zero or negative fails with the
\* invalid-size error, and the context state, the pool (free-list,
\* checked-out set, allocation counter), the holders of buffers and the scene
\* are the same after the call as before it.
C1_InvalidSizeNoEffect ==
    [][(last'.op = RenderOp /\ (last'.arg[1] <= 0 \/ last'.arg[2] <= 0))
        => (/\ last'.err = "invalid_argument"
            /\ ~last'.lib
            /\ UNCHANGED <<ctxVars, poolVars, holdVars, sceneVars>>)]_vars

\* An invalid-size call made on a scene with a document, buffers in the
\* free-list and checked out, and an invalidated context.
C1_Witness ==
    /\ last.op = RenderOp
    /\ last.err = "invalid_argument"
    /\ last.arg = <<1, 0>>
    /\ freeBuffers # <<>>
    /\ checkedOut # {}
    /\ doc # 0
    /\ ~g_context_valid

\* C2: a render call with a valid size on a scene that is not Ready (no
\* document, or a document whose program did not link) fails with the
\* not-ready error ("no document loaded" for a scene without a document).
C2_NotReadyError ==
    (/\ last.op = RenderOp
     /\ last.arg \in ValidSizes
     /\ last.err # "ContextNotCurrent"
     /\ ~(doc # 0 /\ programReady))
        => last.err \in {"NotReadyError", "NoDocument"}

\* C3: no render call reports a compilation error.
C3_NoCompileErrorAtRender ==
    last.op = RenderOp => last.err # "ShaderCompilationError"

\* C8: a create_buffer call that follows the release of a buffer of the same
\* descriptor and size returns that buffer and allocates nothing.
C8_ReleaseThenCreateReuses ==
    [][(/\ last.op = "drop"
        /\ freeBuffers # <<>>
        /\ freeBuffers[1].name = last.arg
        /\ freeBuffers[1].desc = CreateBufferDesc
        /\ last'.op = "create_buffer"
        /\ last'.err = "ok"
        /\ last'.arg = freeBuffers[1].size)
        => (/\ last'.ret = last.arg
            /\ allocCount' = allocCount)]_vars

\* Buffer 1 was handed out again while buffer 2, of the same size and
\* released earlier, stays in the free-list.
C8_Witness ==
    /\ last.op = "create_buffer"
    /\ last.err = "ok"
    /\ last.ret = 1
    /\ allocCount = 2
    /\ freeBuffers # <<>>
    /\ freeBuffers[1].name = 2
    /\ freeBuffers[1].size = last.arg
    /\ 1 \in callerHeld

\* C9: a purge empties the free-list and leaves the checked-out set as it
\* was; the create_buffer call that follows it allocates a fresh buffer.
C9_PurgeEmptiesFreeList ==
    [][/\ (last'.op = "purge" /\ last'.err = "ok")
            => (freeBuffers' = <<>> /\ checkedOut' = checkedOut
                /\ allocCount' = allocCount)
       /\ (last.op = "purge" /\ last.err = "ok"
           /\ last'.op = "create_buffer" /\ last'.err = "ok")
            => (allocCount' = allocCount + 1 /\ last'.ret = allocCount')]_vars

\* A purge that destroyed a pooled buffer while another one was checked out.
C9_Witness ==
    /\ last.op = "purge"
    /\ last.err = "ok"
    /\ checkedOut # {}
    /\ allocCount > Cardinality(checkedOut)
    /\ freeBuffers = <<>>

\* C10: a buffer in the free-list is neither bound to a Pass Target nor held
\* by a caller, and a buffer bound or held is checked out, not in the
\* free-list.
C10_FreeListNotHeld ==
    /\ FreeNames(freeBuffers) \cap Holders(St) = {}
    /\ FreeNames(freeBuffers) \cap OutNames(checkedOut) = {}
    /\ (Holders(St) \ {0}) \subseteq OutNames(checkedOut)

\* A buffer is in the free-list while another is both bound to a Pass Target
\* and held by the caller.
C10_Witness ==
    /\ freeBuffers # <<>>
    /\ \E p \in PassIdx : passBuf[p] # 0 /\ passBuf[p] \in callerHeld
    /\ last.op = "drop"

\* C4: two failures of document construction with different underlying kinds
\* are never reported as the same kind of error.
C4_DistinctKinds ==
    \A k1, k2 \in FailureKinds :
        k1 # k2 => reported[k1] \cap reported[k2] = {}

\* C5: a set with a value of the wrong kind is reported as TypeMismatchError.
C5_TypeMismatchReported ==
    (last.op = "set_value_for_input_named" /\ last.ret = "TypeMismatchError")
        => last.err = "TypeMismatchError"

\* C6: a get of an input returns the value of the last successful set of
\* that input's kind, as long as no other set on it and no document load
\* came after it.
C6_GetReturnsSet ==
    (/\ last.op = "get_value_for_input_named"
     /\ last.arg \in InputNames
     /\ setVal[last.arg] # None)
        => last.val = setVal[last.arg]

\* A get that returns 0.8 for brightness after a render filled the pass.
C6_Witness ==
    /\ last.op = "get_value_for_input_named"
    /\ last.arg = "brightness"
    /\ last.val = [kind |-> "float", v |-> 8]
    /\ setVal["brightness"] = [kind |-> "float", v |-> 8]
    /\ passBuf[1] # 0

\* C7: no two inputs have the same NAME; a rename to a NAME another input
\* holds leaves the list as it was, and a committed rename was to an unused
\* NAME.
NamesUnique(inputs) ==
    \A i, j \in 1..Len(inputs) : i # j => inputs[i] # inputs[j]

C7_NamesUnique ==
    [][/\ NamesUnique(edInputs')
       /\ (last'.op = "rename" /\ last'.err = "rejected") => edInputs' = edInputs
       /\ (last'.op = "rename" /\ edInputs' # edInputs)
            => (/\ last'.err = "ok"
                /\ \A i \in 1..Len(edInputs) : edInputs[i] # edInputs'[last'.arg + 1])]_vars

\* A rename to the NAME of another input was rejected in a list of three.
C7_Witness ==
    /\ last.op = "rename"
    /\ last.err = "rejected"
    /\ Len(edInputs) = MaxInputs

\* C11: as long as no document is loaded, a persistent Pass Target that has a
\* buffer keeps that buffer, and the buffer stays checked out: it is neither
\* put in the free-list nor destroyed.
C11_PersistentBufferKept ==
    [][(doc # 0 /\ last'.op # "use_doc")
        => \A i \in 1..Len(DocPasses(doc)) :
              (DocPasses(doc)[i].persistent /\ passBuf[i] # 0)
                => (/\ passBuf'[i] = passBuf[i]
                    /\ passBuf[i] \in OutNames(checkedOut')
                    /\ passBuf[i] \notin FreeNames(freeBuffers'))]_vars

\* A second render of the two-pass document: its second pass, bound by an
\* earlier frame, found no buffer, after the persistent first pass rendered
\* into the buffer it kept.
C11_Witness ==
    /\ last.op = RenderOp
    /\ last.err = "AllocationError"
    /\ last.ret = 2
    /\ doc = 2
    /\ passBuf[1] # 0
    /\ passBuf[2] # 0

\* C12: the passes of a frame are drawn in declaration order, each pass reads
\* only buffers drawn earlier in the frame or its own persistent buffer,
\* never a null one, and a document with a forward reference is rejected
\* when it is loaded.
C12_PassOrder ==
    /\ (last.op = RenderOp /\ last.val.kind = "frame")
        => \A k \in 1..Len(last.val.v) :
              LET drawn == last.val.v[k]
              IN /\ drawn.pass = k
                 /\ 0 \notin drawn.sampled
                 /\ drawn.sampled \subseteq
                      {last.val.v[j].target : j \in 1..(k - 1)}
                        \cup (IF DocPasses(doc)[k].persistent THEN {drawn.target} ELSE {})
    /\ (last.op = "use_doc" /\ last.arg = ForwardRefDoc)
        => (last.err # "ok" /\ ~programReady)

\* Both passes of document 2 were drawn, the second reading the buffer of the
\* first.
C12_Witness ==
    /\ last.op = RenderOp
    /\ last.err = "ok"
    /\ doc = 2
    /\ Len(last.val.v) = 2
    /\ last.val.v[2].sampled = {last.val.v[1].target}
    /\ last.val.v[1].sampled = {passBuf[1]}

\* The state of the scene between calls.
SceneState ==
    IF doc = 0 THEN "Unloaded"
    ELSE IF programReady THEN "Ready" ELSE "CompileFailed"

\* C13: the library's render is entered only from Ready, never from Unloaded
\* or CompileFailed.
C13_RenderOnlyFromReady ==
    (last.op = RenderOp /\ last.lib) => SceneState = "Ready"

\* C14: a use_doc with a valid document that replaces a document whose load
\* failed with a compile error succeeds and leaves the scene Ready, and the
\* render that follows is not refused for a missing or unlinked program.
C14_UsableAfterCompileError ==
    [][/\ (last'.op = "use_doc" /\ last'.ret = 3 /\ last'.arg \in {1, 2})
            => (/\ last'.err = "ok"
                /\ doc' = last'.arg
                /\ programReady')
       /\ (/\ last.op = "use_doc" /\ last.ret = 3 /\ last.arg \in {1, 2}
           /\ last'.op = RenderOp)
            => last'.err \in {"ok", "ContextNotCurrent", "AllocationError", "RenderError", "NullResult"}]_vars

\* Document 2 was loaded over the document that failed to compile, and the
\* scene is Ready.
C14_Witness ==
    /\ last.op = "use_doc"
    /\ last.arg = 2
    /\ last.ret = 3
    /\ last.err = "ok"
    /\ SceneState = "Ready"

C16_RenderErrorCarriesPass ==
    (last.op = RenderOp /\ last.val.kind = "frame" /\ last.val.gpuErrorAt # 0)
        => (last.err = "RenderError" /\ last.ret = last.val.gpuErrorAt)

\* C17: after a successful render call the output pass dictionary holds one
\* entry per declared pass, keyed by the pass index, with that pass's buffer.
C17_PassDictFilled ==
    (/\ last.op \in {RenderOp, "render_with_target_and_pass_dict"}
     /\ last.err = "ok"
     /\ last.val.kind = "frame")
        => (/\ Len(last.val.v) = Len(DocPasses(doc))
            /\ last.val.dict = PassDict(last.val.v))

C19_FailureReported ==
    (/\ last.op \in {"force_cleanup", "reset_global_buffer_pool",
                     "force_cleanup_vvisf_state", "reset_gl_context_state"}
     /\ last.ret # "none")
        => last.err # "ok"

\* C20: a context, and with it the global buffer pool (line 506), is set up
\* only when no global pool is set: the pool is created at most once between
\* two teardowns of the pool.
C20_PoolCreatedOnce ==
    [][(~g_glfw_window /\ g_glfw_window') => ~globalPool]_vars

\* C21: a render call whose width or height exceeds the sane maximum fails
\* with the invalid-size error before the context is touched, a buffer
\* allocated or a pass rendered.
C21_OversizeRejected ==
    (/\ last.op = RenderOp
     /\ (last.arg[1] > SaneMaximum \/ last.arg[2] > SaneMaximum))
        => (last.err = "invalid_argument" /\ ~last.lib)

\* C22: a housekeeping call that reaches the pool removes from the free-list
\* exactly the buffers whose idle time passes the staleness threshold: a free
\* buffer within the threshold stays, in its place, and the checked-out
\* buffers and their holders are left as they were.
C22_HousekeepingEvictsStaleOnly ==
    [][(last'.op = "housekeeping" /\ last'.lib)
        => /\ checkedOut' = checkedOut
           /\ allocCount' = allocCount
           /\ callerHeld' = callerHeld
           /\ passBuf' = passBuf
           /\ freeBuffers' =
                 SelectSeq([i \in 1..Len(freeBuffers) |->
                               [freeBuffers[i] EXCEPT !.idle = @ + 1]],
                           LAMBDA b : b.idle <= StaleThreshold)
           /\ \A i \in 1..Len(freeBuffers) :
                 (freeBuffers[i].idle + 1 <= StaleThreshold)
                     => freeBuffers[i].name \in FreeNames(freeBuffers')]_vars

\* Housekeeping ran while one buffer was checked out and another sat in the
\* free-list within the threshold, and that one is still there.
C22_Witness ==
    /\ last.op = "housekeeping"
    /\ last.lib
    /\ checkedOut # {}
    /\ Len(freeBuffers) = 1
    /\ freeBuffers[1].idle = StaleThreshold

\* C23: the error class reported for a document-load failure depends on the
\* ISFErr type alone: all failures of one type, whatever their general and
\* specific text, are reported as one class.
C23_KindFromTypeOnly ==
    \A type \in ISFErrTypes \cap DOMAIN reported : Cardinality(reported[type]) <= 1

\* C24: whenever initialize_glfw_context returns success, the global buffer
\* pool is set.
C24_PoolAfterInitialize ==
    (last.op = "initialize_glfw_context" /\ last.err = "ok") => globalPool

\* C25: between two calls, g_context_valid implies g_glfw_initialized,
\* g_glfw_initialized implies a window, and the debug texture is non-zero
\* only while there is a window; a failing initialize_glfw_context or
\* reinitialize_glfw_context leaves no window, both flags false and no debug
\* texture.
C25_ContextFlagsConsistent ==
    /\ g_context_valid => g_glfw_initialized
    /\ g_glfw_initialized => g_glfw_window
    /\ g_debug_texture => g_glfw_window
    /\ (/\ last.op \in {"initialize_glfw_context", "reinitialize_glfw_context"}
        /\ last.err = "false")
           => (~g_glfw_window /\ ~g_glfw_initialized /\ ~g_context_valid /\ ~g_debug_texture)

\* initialize_glfw_context failed and left the context torn down.
C25_Witness ==
    /\ last.op = "initialize_glfw_context"
    /\ last.err = "false"
    /\ ~g_glfw_window
    /\ ~g_glfw_initialized
    /\ ~g_context_valid
    /\ ~g_debug_texture

\* C26: when the readback ends after the GL state was saved, by returning or
\* by throwing, the texture bound to the buffer's target and the framebuffer
\* bindings are what they were at entry, and no framebuffer generated by the
\* call is left.
C26_ReadbackRestoresState ==
    (last.op = "to_pil_image" /\ last.lib)
        => /\ last.val.exit.tex[last.val.target] = last.val.entry.tex[last.val.target]
           /\ last.val.exit.draw = last.val.entry.draw
           /\ last.val.exit.read = last.val.entry.read
           /\ last.val.exit.fbs = last.val.entry.fbs

\* C27: the textures a from_pil_image call generated and left allocated are
\* none when the call fails, and at most the texture of the GLBuffer it
\* returns when it succeeds.
C27_NoTextureLeftOnFailure ==
    (last.op = "from_pil_image" /\ last.lib)
        => last.val.live \subseteq (IF last.err = "ok" THEN {last.ret} ELSE {})

\* C28: operator< of MediaFile is irreflexive and asymmetric, and two
\* MediaFiles that are equal under operator== are ordered neither way.
C28_LessConsistentWithEquals ==
    (last.op = "MediaFile_compare")
        => /\ ~last.val.ltSelf
           /\ ~(last.val.lt /\ last.val.gt)
           /\ last.val.eq => (~last.val.lt /\ ~last.val.gt)

\* C29: a drop with the Top or Bottom edge of the input at index s on the
\* input at index t, s # t, leaves the list with the other inputs in their
\* order and the source input immediately before the target input (Top) or
\* immediately after it (Bottom); for s = t the list is unchanged.
C29_DropMovesNextToTarget ==
    [][(last'.op = "drop_event" /\ last'.val.edge \in {"TopEdge", "BottomEdge"})
        => LET s == last'.arg + 1
               t == last'.val.target + 1
               i == CHOOSE k \in 1..Len(edInputs') : edInputs'[k] = edInputs[s]
               j == CHOOSE k \in 1..Len(edInputs') : edInputs'[k] = edInputs[t]
           IN IF s = t THEN edInputs' = edInputs
              ELSE /\ Len(edInputs') = Len(edInputs)
                   /\ edInputs'[i] = edInputs[s]
                   /\ edInputs'[j] = edInputs[t]
                   /\ RemoveAt(edInputs', i) = RemoveAt(edInputs, s)
                   /\ IF last'.val.edge = "TopEdge" THEN i + 1 = j ELSE i = j + 1]_vars

\* The first of three inputs was dropped on the bottom edge of the last one
\* and is now the last.
C29_Witness ==
    /\ last.op = "drop_event"
    /\ last.arg = 0
    /\ last.val.target = 2
    /\ last.val.edge = "BottomEdge"
    /\ Len(edInputs) = 3
    /\ edInputs[2] = "c"
    /\ edInputs[3] = "a"

\* C30: a multi-line comment start marker that stands after the start of the
\* block's single-line comment never leaves the block in HBS_OpenComment.
C30_MarkerInLineCommentIgnored ==
    (last.op = "highlightBlock" /\ last.val.state = "HBS_OpenComment")
        => LET sl == singleLineCommentStart(last.arg, 0, last.val.prev = "HBS_OpenComment")
           IN ~(sl >= 0 /\ last.val.openedAt > sl)
=============================================================================
